---- MODULE Spec2Model ----
(***************************************************************************)
(* Model of random-stable-marriage-solver.c: the preference generator      *)
(* (shuffle_array and the generator loop of main) followed by the          *)
(* seller-proposing deferred-acceptance loop of main.                      *)
(*                                                                         *)
(* C arrays of length n are functions on 0..n-1, so array[j] in the source *)
(* is array[j] here.  An array that has not been written yet is << >>.     *)
(***************************************************************************)
EXTENDS Integers, Sequences, FiniteSets

\* Largest n given on the command line that the model explores.
MaxN == 2

\* rand() returns a value in 0..RAND_MAX (stdlib.h; glibc value).
RAND_MAX == 2147483647

VARIABLES
    n,                    \* line 25/30: problem size
    randlist,             \* line 41: working buffer of the generator
    row_i,                \* line 46: loop variable i of the generator loop
    side,                 \* which table the running shuffle_array call fills
    shuf_i,               \* line 11: loop variable i of shuffle_array
    shuf_j,               \* line 12: last swap index j drawn in shuffle_array
    seller_prefs,         \* line 33
    buyer_prefs,          \* line 34
    seller_next_choices,  \* line 35
    buyer_final_prefs,    \* line 36
    seller_matches,       \* line 37
    buyer_matches,        \* line 38
    bachelor_count,       \* line 67
    curr_seller,          \* line 75: loop variable of the for loop
    curr_buyer,           \* line 68
    curr_seller_rank,     \* line 70
    other_seller,         \* line 71
    other_seller_rank,    \* line 72
    pc,                   \* control position in main
    trace,                \* history: the proposals made so far in this run
    rounds,               \* history: number of times the while body was entered
    run,                  \* history: 1 in the program's run, 2 in an any-order run
    first_run             \* history: what the program's run ended with (<< >> before)

genVars == <<n, randlist, row_i, side, shuf_i, shuf_j, seller_prefs, buyer_prefs>>
matchVars == <<seller_next_choices, buyer_final_prefs, seller_matches,
               buyer_matches, bachelor_count>>
tmpVars == <<curr_buyer, curr_seller_rank, other_seller, other_seller_rank>>
histVars == <<trace, rounds, run, first_run>>
vars == <<genVars, matchVars, tmpVars, curr_seller, pc, histVars>>

Ids == 0 .. (n - 1)

Uninit == << >>

-----------------------------------------------------------------------------
(* shuffle_array *)

\* Values of rand() that the model draws for a range of m = n - i positions:
\* the two ends of 0..RAND_MAX and both ends of every bucket of the division.
RandSamples(m) ==
    LET d == RAND_MAX \div m + 1
    IN  {0, RAND_MAX} \cup {q * d : q \in 0 .. (m - 1)}
                      \cup {q * d - 1 : q \in 1 .. (m - 1)}

\* line 12: int j = i + rand() / (RAND_MAX / (n - i) + 1);
ShuffleIndex(i, r, len) == i + r \div (RAND_MAX \div (len - i) + 1)

SwapNoTemp(array, i, j) ==
    [k \in DOMAIN array |-> IF k = j THEN array[i] ELSE array[k]]

\* lines 13-15: t = array[j]; array[j] = array[i]; array[i] = t;
Swap(array, i, j) ==
    [k \in DOMAIN array |->
        IF k = i THEN array[j]
        ELSE IF k = j THEN array[i]
        ELSE array[k]]

-----------------------------------------------------------------------------
(* main, lines 25-44 *)

Init ==
    /\ n \in 0 .. MaxN
    /\ randlist = [k \in 0 .. (n - 1) |-> k]
    /\ row_i = 0
    /\ side = "seller"
    /\ shuf_i = 0
    /\ shuf_j = -1
    /\ seller_prefs = [s \in 0 .. (n - 1) |-> Uninit]
    /\ buyer_prefs = [b \in 0 .. (n - 1) |-> Uninit]
    /\ seller_next_choices = Uninit
    /\ buyer_final_prefs = Uninit
    /\ seller_matches = Uninit
    /\ buyer_matches = Uninit
    /\ bachelor_count = 0
    /\ curr_seller = 0
    /\ curr_buyer = -1
    /\ curr_seller_rank = -1
    /\ other_seller = -1
    /\ other_seller_rank = -1
    /\ pc = "gen"
    /\ trace = << >>
    /\ rounds = 0
    /\ run = 1
    /\ first_run = << >>

(* main, lines 46-55: the generator loop *)

\* line 46 test true, line 47: call shuffle_array(randlist, n) for the seller row
BeginRow ==
    /\ pc = "gen"
    /\ row_i < n
    /\ pc' = "shuffle"
    /\ side' = "seller"
    /\ shuf_i' = 0
    /\ UNCHANGED <<n, randlist, row_i, shuf_j, seller_prefs, buyer_prefs>>
    /\ UNCHANGED <<matchVars, tmpVars, curr_seller, histVars>>

\* lines 11-16: one iteration of the loop of shuffle_array
ShuffleStep ==
    /\ pc = "shuffle"
    /\ shuf_i < n - 1
    /\ \E r \in RandSamples(n - shuf_i) :
          /\ shuf_j' = ShuffleIndex(shuf_i, r, n)
          /\ randlist' = Swap(randlist, shuf_i, shuf_j')
    /\ shuf_i' = shuf_i + 1
    /\ UNCHANGED <<n, row_i, side, seller_prefs, buyer_prefs, pc>>
    /\ UNCHANGED <<matchVars, tmpVars, curr_seller, histVars>>

\* shuffle_array returns; lines 48-50 copy the seller row and line 51 calls
\* shuffle_array again, or lines 52-54 copy the buyer row and the loop advances
CopyRow ==
    /\ pc = "shuffle"
    /\ ~(shuf_i < n - 1)
    /\ IF side = "seller"
       THEN /\ seller_prefs' = [seller_prefs EXCEPT ![row_i] = randlist]
            /\ side' = "buyer"
            /\ shuf_i' = 0
            /\ UNCHANGED <<buyer_prefs, row_i, pc>>
       ELSE /\ buyer_prefs' = [buyer_prefs EXCEPT ![row_i] = randlist]
            /\ row_i' = row_i + 1
            /\ pc' = "gen"
            /\ UNCHANGED <<seller_prefs, side, shuf_i>>
    /\ UNCHANGED <<n, randlist, shuf_j>>
    /\ UNCHANGED <<matchVars, tmpVars, curr_seller, histVars>>

(* main, lines 59-72 *)

InitArrays ==
    /\ seller_next_choices' = [k \in 0 .. (n - 1) |-> 0]
    /\ buyer_final_prefs' = [k \in 0 .. (n - 1) |-> -1]
    /\ seller_matches' = [k \in 0 .. (n - 1) |-> -1]
    /\ buyer_matches' = [k \in 0 .. (n - 1) |-> -1]
    /\ bachelor_count' = n
    /\ curr_buyer' = -1
    /\ curr_seller_rank' = -1
    /\ other_seller' = -1
    /\ other_seller_rank' = -1

InitMatching ==
    /\ pc = "gen"
    /\ ~(row_i < n)
    /\ InitArrays
    /\ pc' = "while"
    /\ UNCHANGED <<genVars, curr_seller, histVars>>

-----------------------------------------------------------------------------
(* main, lines 74-109: the proposal loop *)

WhileCondInclusive(count) == count >= 0

\* line 74: while(bachelor_count > 0)
WhileCond(count) == count > 0

NextBuyerFromEnd(s) == seller_prefs[s][n - 1 - seller_next_choices[s]]

\* line 77: seller_prefs[curr_seller][seller_next_choices[curr_seller]]
NextBuyer(s) == seller_prefs[s][seller_next_choices[s]]

NextCursorSkip(k) == k + 2

\* line 78: seller_next_choices[curr_seller]++
NextCursor(k) == k + 1

RankScanOffByOne(prefs_row, s, old) ==
    LET hits == {j \in Ids : prefs_row[j] = s}
    IN  IF hits = {} THEN old
        ELSE 1 + (CHOOSE j \in hits : \A h \in hits : h <= j)

\* lines 81-85: the value of curr_seller_rank after the scan of the buyer's
\* row; the last matching index wins, and without a match the old value stays
RankScan(prefs_row, s, old) ==
    LET hits == {j \in Ids : prefs_row[j] = s}
    IN  IF hits = {} THEN old
        ELSE CHOOSE j \in hits : \A h \in hits : h <= j

SwitchTestFlipped(curr_rank, other_rank) == curr_rank > other_rank

SwitchTestNever(curr_rank, other_rank) == FALSE

\* line 100: if (curr_seller_rank < other_seller_rank)
SwitchTest(curr_rank, other_rank) == curr_rank < other_rank

\* lines 90, 95, 100: which branch the proposal takes
Outcome(t, curr_rank, other_rank) ==
    IF t = -1 THEN "accept"
    ELSE IF SwitchTest(curr_rank, other_rank) THEN "switch"
    ELSE "reject"

NewBachelorCountOnSwitch(outcome, count) ==
    IF outcome \in {"accept", "switch"} THEN count - 1 ELSE count

\* line 94: bachelor_count-- in the accept branch only
NewBachelorCount(outcome, count) ==
    IF outcome = "accept" THEN count - 1 ELSE count

NewSellerMatchesKeepOther(outcome, s, b, t) ==
    IF outcome = "reject" THEN seller_matches
    ELSE [seller_matches EXCEPT ![s] = b]

\* lines 93 and 103-104: seller_matches after the proposal of s to b, whose
\* incumbent seller is t
NewSellerMatches(outcome, s, b, t) ==
    IF outcome = "accept"
    THEN [seller_matches EXCEPT ![s] = b]
    ELSE IF outcome = "switch"
    THEN [[seller_matches EXCEPT ![s] = b] EXCEPT ![t] = -1]
    ELSE seller_matches

\* The buyer's rank of seller s found by the scan of lines 81-85 when s
\* proposes next.
ProposalRank(s) ==
    RankScan(buyer_prefs[NextBuyer(s)], s, curr_seller_rank)

\* The branch the next proposal of seller s takes (lines 79, 90-106).
ProposalOutcome(s) ==
    LET t == buyer_matches[NextBuyer(s)]
    IN  Outcome(t, ProposalRank(s),
                IF t = -1 THEN other_seller_rank
                ELSE buyer_final_prefs[NextBuyer(s)])

\* lines 77-106 for seller s: what the proposal does to the arrays, the
\* counter and the temporaries
ProposeEffect(s) ==
    LET b == NextBuyer(s)
        t == buyer_matches[b]
        cr == ProposalRank(s)
        orank == IF t = -1 THEN other_seller_rank ELSE buyer_final_prefs[b]
        outcome == ProposalOutcome(s)
    IN  /\ curr_buyer' = b
        /\ seller_next_choices' =
               [seller_next_choices EXCEPT ![s] = NextCursor(@)]
        /\ other_seller' = t
        /\ curr_seller_rank' = cr
        /\ other_seller_rank' = orank
        /\ buyer_final_prefs' =
               IF outcome = "reject" THEN buyer_final_prefs
               ELSE [buyer_final_prefs EXCEPT ![b] = cr]
        /\ buyer_matches' =
               IF outcome = "reject" THEN buyer_matches
               ELSE [buyer_matches EXCEPT ![b] = s]
        /\ seller_matches' = NewSellerMatches(outcome, s, b, t)
        /\ bachelor_count' = NewBachelorCount(outcome, bachelor_count)

\* Reading seller_prefs[s] at an index outside 0..n-1, or using a buyer
\* outside 0..n-1 as an index, is an out-of-bounds access.
OutOfBounds(s) ==
    seller_next_choices[s] \notin Ids \/ NextBuyer(s) \notin Ids

\* lines 77-106 for seller s, then curr_seller++ of line 75.  Reading
\* seller_prefs[s] at an index outside 0..n-1, or using a buyer outside
\* 0..n-1 as an index, is an out-of-bounds access: pc becomes "fault".
ProposeBody(s) ==
    IF OutOfBounds(s)
    THEN /\ pc' = "fault"
         /\ UNCHANGED <<genVars, matchVars, tmpVars, curr_seller, histVars>>
    ELSE /\ ProposeEffect(s)
         /\ trace' = Append(trace, [seller |-> s, buyer |-> NextBuyer(s),
                                    outcome |-> ProposalOutcome(s),
                                    rank |-> ProposalRank(s)])
         /\ curr_seller' = curr_seller + 1
         /\ UNCHANGED <<genVars, pc, rounds, run, first_run>>

\* line 74 test true: enter the while body, line 75 sets curr_seller = 0
EnterRound ==
    /\ pc = "while"
    /\ WhileCond(bachelor_count)
    /\ pc' = "for"
    /\ curr_seller' = 0
    /\ rounds' = rounds + 1
    /\ UNCHANGED <<genVars, matchVars, tmpVars, trace, run, first_run>>

\* line 74 test false: the loop is left and the arrays are final
ExitLoop ==
    /\ pc = "while"
    /\ ~WhileCond(bachelor_count)
    /\ pc' = "exit"
    /\ UNCHANGED <<genVars, matchVars, tmpVars, curr_seller, histVars>>

\* lines 75-107 with the test of line 76 true: curr_seller proposes
Propose ==
    /\ pc = "for"
    /\ curr_seller < n
    /\ seller_matches[curr_seller] = -1
    /\ ProposeBody(curr_seller)

\* lines 75-76 with the test of line 76 false: a matched seller is passed over
Skip ==
    /\ pc = "for"
    /\ curr_seller < n
    /\ seller_matches[curr_seller] # -1
    /\ curr_seller' = curr_seller + 1
    /\ UNCHANGED <<genVars, matchVars, tmpVars, pc, histVars>>

\* line 75 test false: the for loop ends and control returns to line 74
EndRound ==
    /\ pc = "for"
    /\ ~(curr_seller < n)
    /\ pc' = "while"
    /\ UNCHANGED <<genVars, matchVars, tmpVars, curr_seller, histVars>>

Next ==
    \/ BeginRow
    \/ ShuffleStep
    \/ CopyRow
    \/ InitMatching
    \/ EnterRound
    \/ ExitLoop
    \/ Propose
    \/ Skip
    \/ EndRound

\* One run of the program.
Spec == Init /\ [][Next]_vars

\* main is sequential code: whenever a statement can execute, it does.
FairSpec == Spec /\ WF_vars(Next)

-----------------------------------------------------------------------------
(* Notions the properties are stated in *)

\* Position of v in a preference row: the number of leading entries that
\* differ from v (n when v does not occur).
Pos(prefs_row, v) ==
    Cardinality({j \in Ids : \A h \in 0 .. j : prefs_row[h] # v})

\* A row in which every identifier of 0..n-1 occurs exactly once.
IsPermutation(prefs_row) ==
    /\ DOMAIN prefs_row = Ids
    /\ \A v \in Ids : Cardinality({j \in Ids : prefs_row[j] = v}) = 1

\* prefs_row lists a strictly before c.
Prefers(prefs_row, a, c) ==
    \E ja, jc \in Ids :
        prefs_row[ja] = a /\ prefs_row[jc] = c /\ ja < jc

\* (s, b) is a blocking pair of the matching sm / bm.
Blocking(sm, bm, s, b) ==
    /\ sm[s] # b
    /\ Prefers(seller_prefs[s], b, sm[s])
    /\ Prefers(buyer_prefs[b], s, bm[b])

\* The seller of buyer b under the seller->buyer bijection M.
SellerOf(M, b) == CHOOSE s \in Ids : M[s] = b

\* All stable matchings (as seller->buyer bijections) of the current profile.
StableMatchings ==
    {M \in [Ids -> Ids] :
        /\ \A s1, s2 \in Ids : M[s1] = M[s2] => s1 = s2
        /\ \A s, b \in Ids :
              ~Blocking(M, [x \in Ids |-> SellerOf(M, x)], s, b)}

\* Number of proposals seller s has made in this run.
ProposalsBy(s) == Cardinality({k \in 1 .. Len(trace) : trace[k].seller = s})

\* Some proposal of this run took the given branch.
Took(outcome) == \E k \in 1 .. Len(trace) : trace[k].outcome = outcome

Row2(a, b) == [k \in 0 .. 1 |-> IF k = 0 THEN a ELSE b]

\* The n = 2 profile of the concrete scenario.
ScenarioProfile ==
    /\ n = 2
    /\ seller_prefs = Row2(Row2(1, 0), Row2(0, 1))
    /\ buyer_prefs = Row2(Row2(0, 1), Row2(0, 1))

Proposal(s, b, outcome, rank) ==
    [seller |-> s, buyer |-> b, outcome |-> outcome, rank |-> rank]

-----------------------------------------------------------------------------
(* Properties *)

\* C1: when the proposal loop has terminated, the matching has no blocking
\* pair: no seller s and buyer b, not matched to each other, such that s
\* ranks b before seller_matches[s] and b ranks s before buyer_matches[b].
C1_NoBlockingPair ==
    pc = "exit" =>
        \A s, b \in Ids : ~Blocking(seller_matches, buyer_matches, s, b)

\* A run in which a buyer switched sellers has ended.
C1_Witness == pc = "exit" /\ n >= 2 /\ Took("switch")

\* C2: when the proposal loop has terminated, no entry of seller_matches or
\* buyer_matches is -1, every seller occurs exactly once in buyer_matches
\* and every buyer occurs exactly once in seller_matches.
C2_PerfectBijection ==
    pc = "exit" =>
        /\ DOMAIN seller_matches = Ids
        /\ DOMAIN buyer_matches = Ids
        /\ \A k \in Ids :
              /\ seller_matches[k] # -1
              /\ buyer_matches[k] # -1
              /\ Cardinality({b \in Ids : buyer_matches[b] = k}) = 1
              /\ Cardinality({s \in Ids : seller_matches[s] = k}) = 1

\* A run with two sellers, one of which was displaced, has ended.
C2_Witness == pc = "exit" /\ n = 2 /\ Took("switch") /\ rounds = 2

\* C3: the final seller_matches is seller-optimal: every seller ranks its
\* final buyer at a position no later than its partner in any stable
\* matching of the same profile.
C3_SellerOptimal ==
    pc = "exit" =>
        \A M \in StableMatchings : \A s \in Ids :
            Pos(seller_prefs[s], seller_matches[s]) <= Pos(seller_prefs[s], M[s])

\* A run has ended on a profile with a stable matching in which some seller
\* is strictly worse off than in the computed one.
C3_Witness ==
    /\ pc = "exit"
    /\ \E M \in StableMatchings : \E s \in Ids :
          Pos(seller_prefs[s], seller_matches[s]) < Pos(seller_prefs[s], M[s])

\* C4: the proposal loop terminates, and over the whole run at most n*n
\* proposals are made, at most n of them by each seller.
C4_TerminatesWithinBound ==
    /\ <>(pc = "exit")
    /\ [](/\ Len(trace) <= n * n
          /\ \A s \in Ids : ProposalsBy(s) <= n)

\* A run has ended in which some seller proposed to every buyer.
C4_Witness ==
    pc = "exit" /\ n >= 2 /\ \E s \in Ids : ProposalsBy(s) = n

\* C6: whatever rand() returns, every row the generator has copied into
\* seller_prefs or buyer_prefs is a permutation of 0..n-1 (as is randlist),
\* and the swap index j drawn in shuffle_array lies in i..n-1.
C6_RowsArePermutations ==
    /\ IsPermutation(randlist)
    /\ \A s \in Ids :
          (s < row_i \/ (s = row_i /\ pc = "shuffle" /\ side = "buyer"))
              => IsPermutation(seller_prefs[s])
    /\ \A b \in Ids : b < row_i => IsPermutation(buyer_prefs[b])
    /\ (pc = "shuffle" /\ shuf_i > 0) =>
          (shuf_i - 1 <= shuf_j /\ shuf_j <= n - 1)

\* The generator has finished with a row that is not the identity and a
\* last swap index above its position.
C6_Witness ==
    /\ pc = "while"
    /\ n >= 2
    /\ \E b \in Ids : buyer_prefs[b] # [k \in Ids |-> k]
    /\ \E s \in Ids : seller_prefs[s] # buyer_prefs[s]
    /\ shuf_j = n - 1

\* C7 as stated: on the scenario profile the run is seller 0 to buyer 1
\* accepted with rank 1, then seller 1 to buyer 0 accepted with rank 1, and
\* the final pairing is seller 0 - buyer 1, seller 1 - buyer 0.
C7_Original ==
    (pc = "exit" /\ ScenarioProfile) =>
        /\ trace = <<Proposal(0, 1, "accept", 1), Proposal(1, 0, "accept", 1)>>
        /\ seller_matches = Row2(1, 0)
        /\ buyer_matches = Row2(1, 0)

\* C7 amended: on the scenario profile the run is seller 0 to buyer 1
\* accepted with rank 0, then seller 1 to buyer 0 accepted with rank 1, and
\* the final pairing is seller 0 - buyer 1, seller 1 - buyer 0.
C7_Scenario ==
    (pc = "exit" /\ ScenarioProfile) =>
        /\ trace = <<Proposal(0, 1, "accept", 0), Proposal(1, 0, "accept", 1)>>
        /\ seller_matches = Row2(1, 0)
        /\ buyer_matches = Row2(1, 0)
        /\ buyer_final_prefs = Row2(1, 0)

\* The run on the scenario profile has ended.
C7_Witness == pc = "exit" /\ ScenarioProfile /\ Len(trace) = 2

\* C8: the final matching is buyer-pessimal: every buyer ranks its final
\* seller at a position no earlier than its partner in any stable matching
\* of the same profile, and buyer_final_prefs[b] is that position.
C8_BuyerPessimal ==
    pc = "exit" =>
        \A b \in Ids :
            /\ buyer_final_prefs[b] = Pos(buyer_prefs[b], buyer_matches[b])
            /\ \A M \in StableMatchings :
                  Pos(buyer_prefs[b], buyer_matches[b])
                      >= Pos(buyer_prefs[b], SellerOf(M, b))

\* A run has ended on a profile with a stable matching in which some buyer
\* is strictly better off than in the computed one.
C8_Witness ==
    /\ pc = "exit"
    /\ \E M \in StableMatchings : \E b \in Ids :
          buyer_final_prefs[b] > Pos(buyer_prefs[b], SellerOf(M, b))

\* C9: for n = 0 both tables are empty, the while body is never entered, no
\* proposal is made, no fault occurs and the output arrays are empty.
C9_EmptyInstance ==
    n = 0 =>
        /\ seller_prefs = << >> /\ buyer_prefs = << >>
        /\ rounds = 0
        /\ trace = << >>
        /\ pc \in {"gen", "while", "exit"}
        /\ pc \in {"while", "exit"} =>
              /\ seller_matches = << >>
              /\ buyer_matches = << >>
              /\ buyer_final_prefs = << >>
              /\ bachelor_count = 0

\* The run for n = 0 has left the loop.
C9_Witness == n = 0 /\ pc = "exit" /\ rounds = 0

\* C10: for n = 1 the run ends with seller 0 matched to buyer 0 and
\* buyer_final_prefs[0] = 0.
C10_SinglePair ==
    (n = 1 /\ pc = "exit") =>
        /\ seller_matches[0] = 0
        /\ buyer_matches[0] = 0
        /\ buyer_final_prefs[0] = 0

\* The run for n = 1 has ended after its one proposal.
C10_Witness == n = 1 /\ pc = "exit" /\ Len(trace) = 1

-----------------------------------------------------------------------------
(* Notions for the properties of the running loop *)

\* The states between two proposals: after lines 59-72 and after each
\* completed proposal step.
InLoop == pc \in {"while", "for", "exit"}

\* The last proposal made in this run.
LastProposal == trace[Len(trace)]

\* The step makes a proposal.
ProposalStep == Len(trace') = Len(trace) + 1

\* The sellers that have proposed to buyer b so far: b occurs in their row
\* at a position below their cursor.
Proposers(b) ==
    {s \in Ids : \E k \in Ids :
        k < seller_next_choices[s] /\ seller_prefs[s][k] = b}

\* C11: between two proposals the match arrays are mutually inverse partial
\* maps: seller_matches[buyer_matches[b]] = b for every matched buyer b and
\* buyer_matches[seller_matches[s]] = s for every matched seller s.
C11_MutuallyInverse ==
    InLoop =>
        /\ \A b \in Ids :
              buyer_matches[b] # -1 => seller_matches[buyer_matches[b]] = b
        /\ \A s \in Ids :
              seller_matches[s] # -1 => buyer_matches[seller_matches[s]] = s

\* In the middle of a round after a switch, one seller matched and one not.
C11_Witness ==
    /\ pc = "for"
    /\ Took("switch")
    /\ \E s, u \in Ids : seller_matches[s] = -1 /\ seller_matches[u] # -1

\* C12: between two proposals every buyer holds the best offer received so
\* far: it is unmatched exactly when no seller has proposed to it, otherwise
\* its match is the proposer it ranks first; and a matched buyer never
\* becomes unmatched again.
C12_BestOfferHeld ==
    /\ [](InLoop =>
            \A b \in Ids :
                /\ buyer_matches[b] = -1 <=> Proposers(b) = {}
                /\ buyer_matches[b] # -1 =>
                      /\ buyer_matches[b] \in Proposers(b)
                      /\ \A s \in Proposers(b) :
                            Pos(buyer_prefs[b], buyer_matches[b])
                                <= Pos(buyer_prefs[b], s))
    /\ [][(InLoop /\ InLoop') =>
            \A b \in Ids : buyer_matches[b] # -1 => buyer_matches'[b] # -1]_vars

\* Some buyer has received offers from two sellers.
C12_Witness ==
    InLoop /\ \E b \in Ids : Cardinality(Proposers(b)) >= 2

\* C13: between two proposals buyer_final_prefs[b] is -1 for an unmatched
\* buyer and otherwise the index of buyer_matches[b] in buyer_prefs[b]; the
\* ranks compared in the switch test are the true ranks of the proposing
\* seller and of the incumbent seller.
C13_RanksAreTrue ==
    InLoop =>
        /\ \A b \in Ids :
              /\ buyer_matches[b] = -1 => buyer_final_prefs[b] = -1
              /\ buyer_matches[b] # -1 =>
                    /\ buyer_final_prefs[b] \in Ids
                    /\ buyer_prefs[b][buyer_final_prefs[b]] = buyer_matches[b]
        /\ trace # << >> =>
              /\ curr_buyer = LastProposal.buyer
              /\ curr_seller_rank =
                    Pos(buyer_prefs[curr_buyer], LastProposal.seller)
              /\ other_seller # -1 =>
                    other_seller_rank = Pos(buyer_prefs[curr_buyer], other_seller)

\* The last proposal met an incumbent seller and displaced it.
C13_Witness ==
    /\ pc = "for"
    /\ trace # << >>
    /\ LastProposal.outcome = "switch"
    /\ other_seller # -1
    /\ curr_seller_rank < other_seller_rank

\* C14: seller_next_choices[s] never decreases, grows by exactly one on each
\* proposal of s whatever the outcome and not otherwise, never exceeds n and
\* is below n when it indexes seller_prefs[s]; no seller proposes to the
\* same buyer twice.
C14_CursorAdvances ==
    /\ [](/\ pc # "fault"
          /\ InLoop => \A s \in Ids : seller_next_choices[s] \in 0 .. n
          /\ \A k1, k2 \in 1 .. Len(trace) :
                (trace[k1].seller = trace[k2].seller
                    /\ trace[k1].buyer = trace[k2].buyer) => k1 = k2)
    /\ [][(InLoop /\ InLoop') =>
            \A s \in Ids :
                IF ProposalStep /\ trace'[Len(trace')].seller = s
                THEN /\ seller_next_choices[s] < n
                     /\ seller_next_choices'[s] = seller_next_choices[s] + 1
                ELSE seller_next_choices'[s] = seller_next_choices[s]]_vars

\* Some seller has proposed to every buyer, after each kind of outcome.
C14_Witness ==
    /\ InLoop
    /\ n >= 2
    /\ \E s \in Ids : seller_next_choices[s] = n
    /\ Took("reject")

\* C15: a switch in which s displaces the incumbent t of buyer b sets
\* seller_matches[t] to -1 and leaves t's cursor unchanged, pointing right
\* after b in seller_prefs[t], so t's next proposal goes to the buyer after
\* b; bachelor_count, every other seller's cursor and match and every other
\* buyer's match and rank are unchanged.
C15_SwitchFrame ==
    /\ [][(ProposalStep /\ trace'[Len(trace')].outcome = "switch") =>
            LET s == trace'[Len(trace')].seller
                b == trace'[Len(trace')].buyer
                t == buyer_matches[b]
            IN  /\ t \in Ids /\ t # s
                /\ seller_matches[t] = b
                /\ seller_matches'[t] = -1
                /\ seller_matches'[s] = b
                /\ buyer_matches'[b] = s
                /\ seller_next_choices'[t] = seller_next_choices[t]
                /\ seller_next_choices'[t] = Pos(seller_prefs[t], b) + 1
                /\ bachelor_count' = bachelor_count
                /\ \A u \in Ids \ {s, t} :
                      /\ seller_next_choices'[u] = seller_next_choices[u]
                      /\ seller_matches'[u] = seller_matches[u]
                /\ \A c \in Ids \ {b} :
                      /\ buyer_matches'[c] = buyer_matches[c]
                      /\ buyer_final_prefs'[c] = buyer_final_prefs[c]]_vars
    /\ [](\A k1, k2 \in 1 .. Len(trace) :
            (/\ k1 < k2
             /\ trace[k1].seller = trace[k2].seller
             /\ \A k \in (k1 + 1) .. (k2 - 1) :
                   trace[k].seller # trace[k1].seller)
            => Pos(seller_prefs[trace[k1].seller], trace[k2].buyer)
                 = Pos(seller_prefs[trace[k1].seller], trace[k1].buyer) + 1)

\* A displaced seller has proposed again, after the switch that freed it.
C15_Witness ==
    /\ InLoop
    /\ \E k1, k2, k3 \in 1 .. Len(trace) :
          /\ k1 < k2 /\ k2 < k3
          /\ trace[k2].outcome = "switch"
          /\ trace[k2].buyer = trace[k1].buyer
          /\ trace[k3].seller = trace[k1].seller

\* C19: between two proposals bachelor_count is the number of sellers with
\* seller_matches[s] = -1, so bachelor_count > 0 is false exactly when every
\* seller is matched; a proposal decrements it when a free buyer accepts and
\* leaves it unchanged on a switch or a reject.
C19_BachelorCount ==
    /\ [](InLoop =>
            /\ bachelor_count =
                  Cardinality({s \in Ids : seller_matches[s] = -1})
            /\ ~(bachelor_count > 0) <=>
                  \A s \in Ids : seller_matches[s] # -1)
    /\ [][ProposalStep =>
            bachelor_count' =
                IF trace'[Len(trace')].outcome = "accept"
                THEN bachelor_count - 1
                ELSE bachelor_count]_vars

\* One seller is unmatched after a switch displaced it.
C19_Witness ==
    /\ InLoop
    /\ n >= 2
    /\ trace # << >>
    /\ LastProposal.outcome = "switch"
    /\ bachelor_count = 1

\* C20: between two proposals a matched seller is matched to the buyer it
\* proposed to last: its cursor is at least 1 and seller_matches[s] =
\* seller_prefs[s][seller_next_choices[s] - 1]; and a seller proposes only
\* while seller_matches[s] = -1.
C20_MatchedToLastProposed ==
    /\ [](InLoop =>
            \A s \in Ids :
                seller_matches[s] # -1 =>
                    /\ seller_next_choices[s] >= 1
                    /\ seller_next_choices[s] - 1 \in Ids
                    /\ seller_matches[s] =
                          seller_prefs[s][seller_next_choices[s] - 1])
    /\ [][ProposalStep =>
            seller_matches[trace'[Len(trace')].seller] = -1]_vars

\* The run has ended with a seller matched to a buyer that is not its first
\* choice.
C20_Witness ==
    /\ pc = "exit"
    /\ \E s \in Ids :
          seller_next_choices[s] >= 2 /\ seller_matches[s] # seller_prefs[s][0]

-----------------------------------------------------------------------------
(* The generator's working buffer *)

\* The states in which shuffle_array has just been called (lines 47, 51).
AtShuffleCall == pc = "shuffle" /\ shuf_i = 0

\* C18 as stated: at every call of shuffle_array, randlist is the identity
\* sequence 0, 1, ..., n-1.
C18_Original ==
    AtShuffleCall => randlist = [k \in Ids |-> k]

\* C18 amended: at every call of shuffle_array, randlist is a permutation of
\* 0..n-1: the identity at the first call and, at every later call, the
\* order left by the previous row (the row copied last).
C18_BufferCarriedOver ==
    AtShuffleCall =>
        /\ IsPermutation(randlist)
        /\ (row_i = 0 /\ side = "seller") => randlist = [k \in Ids |-> k]
        /\ side = "buyer" => randlist = seller_prefs[row_i]
        /\ (row_i > 0 /\ side = "seller") => randlist = buyer_prefs[row_i - 1]

\* shuffle_array is called on a buffer that the previous row left permuted.
C18_Witness ==
    /\ AtShuffleCall
    /\ n >= 2
    /\ row_i > 0
    /\ randlist # [k \in Ids |-> k]

-----------------------------------------------------------------------------
(* Deferred acceptance with an arbitrary proposal order *)

\* After the program's run, the matching is computed again on the same
\* tables by the any-order procedure: what the program ended with is kept
\* and lines 59-72 are executed again.
RerunAnyOrder ==
    /\ pc = "exit"
    /\ run = 1
    /\ first_run' = [seller_matches |-> seller_matches,
                     buyer_matches |-> buyer_matches,
                     buyer_final_prefs |-> buyer_final_prefs,
                     trace |-> trace]
    /\ InitArrays
    /\ pc' = "free"
    /\ run' = 2
    /\ trace' = << >>
    /\ rounds' = 0
    /\ UNCHANGED <<genVars, curr_seller>>

\* While a seller is unmatched, an arbitrary unmatched seller makes its next
\* proposal (lines 77-106), in no particular order.
ProposeFree ==
    /\ pc = "free"
    /\ WhileCond(bachelor_count)
    /\ \E s \in Ids :
          /\ seller_matches[s] = -1
          /\ ~OutOfBounds(s)
          /\ ProposeEffect(s)
    /\ UNCHANGED <<genVars, curr_seller, pc, histVars>>

\* No seller is unmatched: the any-order procedure ends.
ExitFree ==
    /\ pc = "free"
    /\ ~WhileCond(bachelor_count)
    /\ pc' = "exit"
    /\ UNCHANGED <<genVars, matchVars, tmpVars, curr_seller, histVars>>

NextAnyOrder == Next \/ RerunAnyOrder \/ ProposeFree \/ ExitFree

\* The program's run followed by an any-order run on the same tables.
SpecAnyOrder == Init /\ [][NextAnyOrder]_vars

\* The number of proposals made so far in the run, counted from the cursors.
CursorTotal ==
    Cardinality({sk \in Ids \X Ids : sk[2] < seller_next_choices[sk[1]]})

\* C16: on the tables the program ran on, deferred acceptance in which at
\* each step an arbitrary unmatched seller proposes ends with the
\* seller_matches and buyer_matches of the program's rounds; and it does
\* end under every schedule: while a seller is unmatched some unmatched
\* seller can propose, every step is one more proposal, and there are never
\* more than n*n of them.
C16_OrderIndependent ==
    /\ []((run = 2 /\ pc = "exit") =>
            /\ seller_matches = first_run.seller_matches
            /\ buyer_matches = first_run.buyer_matches)
    /\ []((run = 2 /\ pc = "free") =>
            /\ CursorTotal <= n * n
            /\ bachelor_count > 0 =>
                  \E s \in Ids :
                      seller_matches[s] = -1 /\ seller_next_choices[s] < n)
    /\ [][(pc = "free" /\ pc' = "free") =>
            CursorTotal' = CursorTotal + 1]_vars

\* An any-order run has ended whose last proposal went to another buyer
\* than the last proposal of the program's run: the orders differed.
C16_Witness ==
    /\ run = 2
    /\ pc = "exit"
    /\ n >= 2
    /\ curr_buyer # first_run.trace[Len(first_run.trace)].buyer

====
